---- MODULE Spec2Model ----
(***************************************************************************)
(* Pire::Impl::Determine (src/pire/determine.h): the breadth-first         *)
(* enumeration of the states of an indirectly specified automaton, with    *)
(* its budget of new states and its emission of the states and the         *)
(* transitions to the task's sinks.                                        *)
(*                                                                         *)
(* The task is the environment.  Its Initial() state and its Letters()     *)
(* table are drawn when the call starts; its Next() and IsRequired()       *)
(* answers are drawn when Determine first asks for them and remembered in  *)
(* nextMemo and reqMemo, so that the task is a deterministic (pure) one:   *)
(* the same question always gets the same answer.                          *)
(***************************************************************************)
EXTENDS Integers, Sequences, FiniteSets, TLC

\* ------------------------------------------------------------------ bounds
\* How many distinct composite states the task can produce.
NumTaskStates == 3
\* The largest maxSize argument Determine is called with.
MaxBudget == 2

\* ------------------------------------------------------- the task's values
\* Composite states are opaque to Determine: it copies and compares them.
\* They are numbered from 101 so that a state is never mistaken for an index.
TaskStates == {100 + n : n \in 1..NumTaskStates}

\* Char values of the class representatives: 'a' is 97, 'b' is 98.
Letter(k) == 96 + k

\* task.Letters(): iteration yields (representative, (classIndex, members))
\* in the order of the representatives (a map keyed by the representative);
\* the class indices are dense in 0..K-1 and need not follow that order.
LetterTables ==
    { <<>>,
      << [rep |-> Letter(1), idx |-> 0] >>,
      << [rep |-> Letter(1), idx |-> 0], [rep |-> Letter(2), idx |-> 1] >>,
      << [rep |-> Letter(1), idx |-> 1], [rep |-> Letter(2), idx |-> 0] >> }

Reps(tbl) == {tbl[k].rep : k \in 1..Len(tbl)}

\* ------------------------------------------------------------------- state
VARIABLES
    initial,        \* task.Initial()
    letters,        \* task.Letters()
    nextMemo,       \* the answers task.Next has given: <<state, letter>> -> state
    reqMemo,        \* the answers task.IsRequired has given: state -> BOOLEAN
    maxSize0,       \* the maxSize argument of the call
    maxSize,        \* the remaining budget (the parameter, decremented)
    states,         \* TVector<State> states
    invstates,      \* InvStates invstates: state -> index
    transitions,    \* TransitionTable transitions: the rows, in push order
    stateIndices,   \* TVector<size_t> stateIndices
    stateIdx,       \* the outer loop's index
    li,             \* position of the inner loop's iterator in letters (1-based)
    row,            \* the row being filled
    newState,       \* the last result of task.Next
    from,           \* the emission loop's counter
    calls,          \* the sink calls made so far, in order
    result,         \* "none", "Success" or "Failure"
    pc,             \* "loop", "letters", "connect" or "done"
    run,            \* 1 for the first call on this task, 2 for the second
    first,          \* the outcome of the first call, once a second one started
    \* ---- Minimize(task)
    mSize,          \* task.Size()
    mLetters,       \* task.Letters(): the classes, with their members
    mNext,          \* task.Next on the representatives: <<state, letter>> -> state
    mLabel,         \* what task.SameClasses compares: state -> label
    detTran,        \* DeterminedTransitions detTran
    distinctLetters,\* TVector<Char> distinctLetters
    last,           \* StateClasses last: its relation and its classes
    stateClassMap,  \* StateClassMap stateClassMap
    splits,         \* how many times last.Split was called
    assertOk,       \* FALSE once Y_ASSERT(!clMap.empty()) was false
    mCalls,         \* the task's methods called so far, in order
    mAccepted,      \* the argument of task.AcceptPartition
    mResult,        \* "none", "Success" or "Failure"
    mpc,            \* "idle", "start", "seed", "update", "split", "accept",
                    \* "done" or "aborted"
    pass,           \* 1, or 2 when Minimize runs on its own collapsed output
    firstTask       \* the task of pass 1 and the partition it was given

vars == << initial, letters, nextMemo, reqMemo, maxSize0, maxSize, states,
           invstates, transitions, stateIndices, stateIdx, li, row, newState,
           from, calls, result, pc, run, first,
           mSize, mLetters, mNext, mLabel, detTran, distinctLetters, last,
           stateClassMap, splits, assertOk, mCalls, mAccepted, mResult, mpc,
           pass, firstTask >>

\* The variables of Determine and those of Minimize.
detVars == << initial, letters, nextMemo, reqMemo, maxSize0, maxSize, states,
              invstates, transitions, stateIndices, stateIdx, li, row,
              newState, from, calls, result, pc, run, first >>

minVars == << mSize, mLetters, mNext, mLabel, detTran, distinctLetters, last,
              stateClassMap, splits, assertOk, mCalls, mAccepted, mResult, mpc,
              pass, firstTask >>

taskVars == << initial, letters >>

\* ----------------------------------------------------------------- helpers
\* The empty map.
EmptyMap == [x \in {} |-> 0]

\* TVector<size_t> v(n): n value-initialised entries.
Zeros(n) == [k \in 1..n |-> 0]

\* v[i] = x for a 0-based index i.
SetAt(v, i, x) == [v EXCEPT ![i + 1] = x]

\* v[i] for a 0-based index i.
At(v, i) == v[i + 1]

\* Faulty variant: the lookup never finds the state.
FoundNever(inv, s) == FALSE

\* invstates.find(newState) != invstates.end()
Found(inv, s) == s \in DOMAIN inv

\* Faulty variant: the test is made one new state too early (maxSize <= 1).
BudgetSpentEarly(m) == m <= 1

\* Faulty variant: the budget is never found spent (the test is dropped).
BudgetSpentNever(m) == FALSE

\* Faulty variant: `if (!--maxSize)`: the decrement comes first, so that a budget of 1
\* is spent at the first new state and a budget of 0 wraps around.
BudgetSpentPreDecrement(m) == m = 1

\* if (!maxSize--): the budget is spent when it is zero before the decrement.
BudgetSpent(m) == m = 0

\* Faulty variant: the index is taken after the push_back (states.size() of the grown
\* vector).
NewIndexAfterPush(st) == Len(st) + 1

\* The index a new state gets: states.size() before the push_back.
NewIndex(st) == Len(st)

\* Faulty variant: the size of the map after the insertion is stored in place
\* of the index given.
InsertInvMapSize(inv, s, idx) == inv @@ (s :> Cardinality(DOMAIN inv) + 1)

\* invstates.insert(value_type(s, idx)).first->second: TMap::insert keeps an
\* existing entry and returns it.
InsertInv(inv, s, idx) == inv @@ (s :> idx)

\* Faulty variant: the new state is put in front of the vector.
PushStateFront(st, s) == <<s>> \o st

\* states.push_back(s)
PushState(st, s) == Append(st, s)

\* Faulty variant: the slot of a letter is its position in the iteration over
\* Letters() and not its class index.
RowSlotByOrder(letter) == letter.rep - Letter(1)

\* row[letter.second.first]: the slot of a letter is its class index.
RowSlot(letter) == letter.idx

\* Faulty variant: invletters is filled in iteration order and not by class index.
InvLettersByOrder(tbl) == [c \in 1..Len(tbl) |-> tbl[c].rep]

\* TVector<Char> invletters: invletters[letter.second.first] = letter.first
InvLetters(tbl) ==
    LET At0(c) == IF \E k \in 1..Len(tbl) : tbl[k].idx = c
                    THEN (CHOOSE k \in 1..Len(tbl) :
                            tbl[k].idx = c /\ \A k2 \in 1..Len(tbl) :
                                                tbl[k2].idx = c => k2 <= k)
                    ELSE 0
    IN  [c \in 1..Len(tbl) |-> IF At0(c - 1) = 0 THEN 0 ELSE tbl[At0(c - 1)].rep]

\* Faulty variant: Connect gets the row's position in the table.
ConnectFromRowPosition(indices, f) == f

\* The first argument of Connect for the row at position f: stateIndices[from].
ConnectFrom(indices, f) == At(indices, f)

AcceptCall(st) ==
    [op |-> "AcceptStates", states |-> st, from |-> 0, to |-> 0, letter |-> 0]

ConnectCall(f, t, l) ==
    [op |-> "Connect", states |-> <<>>, from |-> f, to |-> t, letter |-> l]

\* The Connect calls of one row: for (j, l) over the row and invletters.
RowCalls(f, r, inv) == [j \in 1..Len(r) |-> ConnectCall(f, r[j], inv[j])]

\* ----------------------------------------------------------------- actions
\* Lines 98-104: the locals, and the initial state at index 0.
Start(init, m) ==
    /\ maxSize0 = m
    /\ maxSize = m
    /\ states = PushState(<<>>, init)
    /\ invstates = InsertInv(EmptyMap, init, 0)
    /\ transitions = <<>>
    /\ stateIndices = <<>>
    /\ stateIdx = 0
    /\ li = 0
    /\ row = <<>>
    /\ newState = init
    /\ from = 0
    /\ calls = <<>>
    /\ result = "none"
    /\ pc = "loop"

\* Minimize before its call: the task is not drawn yet, the locals are empty.
MinLocals(p) ==
    /\ mSize = 0
    /\ mLetters = <<>>
    /\ mNext = EmptyMap
    /\ mLabel = <<>>
    /\ detTran = <<>>
    /\ distinctLetters = <<>>
    /\ last = [eq |-> [prev |-> FALSE, task |-> FALSE], inv |-> <<>>]
    /\ stateClassMap = <<>>
    /\ splits = 0
    /\ assertOk = TRUE
    /\ mCalls = <<>>
    /\ mAccepted = <<>>
    /\ mResult = "none"
    /\ mpc = p
    /\ pass = 1
    /\ firstTask = [size |-> 0, accepted |-> <<>>]

Init ==
    /\ MinLocals("idle")
    /\ initial \in TaskStates
    /\ letters \in LetterTables
    /\ nextMemo = EmptyMap
    /\ reqMemo = EmptyMap
    /\ run = 1
    /\ first = [result |-> "none", calls |-> <<>>, maxSize |-> 0]
    /\ \E m \in 0..MaxBudget : Start(initial, m)

\* task.IsRequired(s) answers b.
IsRequired(s, b) ==
    /\ s \in DOMAIN reqMemo => b = reqMemo[s]
    /\ reqMemo' = reqMemo @@ (s :> b)

\* The states task.Next may answer with.  Determine only copies states and
\* compares them (lines 111-117), so tasks that differ by a renaming of their
\* states give the same runs up to that renaming: a state the task has not
\* produced before is always the least unused one.
NextAnswers ==
    LET used == {initial} \cup {nextMemo[q] : q \in DOMAIN nextMemo}
        unused == TaskStates \ used
    IN  used \cup {x \in unused : \A y \in unused : x <= y}

\* task.Next(s, l) answers n.
TaskNext(s, l, n) ==
    /\ <<s, l>> \in DOMAIN nextMemo => n = nextMemo[<<s, l>>]
    /\ nextMemo' = nextMemo @@ (<<s, l>> :> n)

\* Lines 106-108: a state that is not required keeps its index and gets no row.
SkipState ==
    /\ pc = "loop"
    /\ stateIdx < Len(states)
    /\ IsRequired(At(states, stateIdx), FALSE)
    /\ stateIdx' = stateIdx + 1
    /\ UNCHANGED minVars
    /\ UNCHANGED << taskVars, nextMemo, maxSize0, maxSize, states, invstates,
                    transitions, stateIndices, li, row, newState, from, calls,
                    result, pc, run, first >>

\* Faulty variant: the answer of IsRequired is not looked at.
BeginRowIgnoringRequired ==
    /\ pc = "loop"
    /\ stateIdx < Len(states)
    /\ \E b \in BOOLEAN : IsRequired(At(states, stateIdx), b)
    /\ row' = Zeros(Len(letters))
    /\ li' = 1
    /\ pc' = "letters"
    /\ UNCHANGED minVars
    /\ UNCHANGED << taskVars, nextMemo, maxSize0, maxSize, states, invstates,
                    transitions, stateIndices, stateIdx, newState, from, calls,
                    result, run, first >>

\* Lines 106-110: a required state gets a fresh row of Letters().Size() slots.
BeginRow ==
    /\ pc = "loop"
    /\ stateIdx < Len(states)
    /\ IsRequired(At(states, stateIdx), TRUE)
    /\ row' = Zeros(Len(letters))
    /\ li' = 1
    /\ pc' = "letters"
    /\ UNCHANGED minVars
    /\ UNCHANGED << taskVars, nextMemo, maxSize0, maxSize, states, invstates,
                    transitions, stateIndices, stateIdx, newState, from, calls,
                    result, run, first >>

\* Lines 110-113, 119: Next leads to a state that has an index already.
NextKnown ==
    /\ pc = "letters"
    /\ li <= Len(letters)
    /\ \E n \in NextAnswers :
        /\ TaskNext(At(states, stateIdx), letters[li].rep, n)
        /\ Found(invstates, n)
        /\ newState' = n
        /\ row' = SetAt(row, RowSlot(letters[li]), invstates[n])
    /\ li' = li + 1
    /\ UNCHANGED minVars
    /\ UNCHANGED << taskVars, reqMemo, maxSize0, maxSize, states, invstates,
                    transitions, stateIndices, stateIdx, from, calls, result,
                    pc, run, first >>

\* Lines 110-119: Next leads to a new state and the budget allows it.
NextNew ==
    /\ pc = "letters"
    /\ li <= Len(letters)
    /\ \E n \in NextAnswers :
        /\ TaskNext(At(states, stateIdx), letters[li].rep, n)
        /\ ~Found(invstates, n)
        /\ ~BudgetSpent(maxSize)
        /\ newState' = n
        /\ invstates' = InsertInv(invstates, n, NewIndex(states))
        /\ states' = PushState(states, n)
        /\ row' = SetAt(row, RowSlot(letters[li]), invstates'[n])
    /\ maxSize' = maxSize - 1
    /\ li' = li + 1
    /\ UNCHANGED minVars
    /\ UNCHANGED << taskVars, reqMemo, maxSize0, transitions, stateIndices,
                    stateIdx, from, calls, result, pc, run, first >>

\* Faulty variant: the states found so far are handed to the task before Failure.
NextFailEmitting ==
    /\ pc = "letters"
    /\ li <= Len(letters)
    /\ \E n \in NextAnswers :
        /\ TaskNext(At(states, stateIdx), letters[li].rep, n)
        /\ ~Found(invstates, n)
        /\ BudgetSpent(maxSize)
        /\ newState' = n
    /\ calls' = Append(calls, AcceptCall(states))
    /\ result' = "Failure"
    /\ pc' = "done"
    /\ UNCHANGED minVars
    /\ UNCHANGED << taskVars, reqMemo, maxSize0, maxSize, states, invstates,
                    transitions, stateIndices, stateIdx, li, row, from, run,
                    first >>

\* Lines 110-115: Next leads to a new state and the budget is spent.
\* (The decrement wraps maxSize around; the function returns at once and the
\* parameter is not read again.)
NextFail ==
    /\ pc = "letters"
    /\ li <= Len(letters)
    /\ \E n \in NextAnswers :
        /\ TaskNext(At(states, stateIdx), letters[li].rep, n)
        /\ ~Found(invstates, n)
        /\ BudgetSpent(maxSize)
        /\ newState' = n
    /\ result' = "Failure"
    /\ pc' = "done"
    /\ UNCHANGED minVars
    /\ UNCHANGED << taskVars, reqMemo, maxSize0, maxSize, states, invstates,
                    transitions, stateIndices, stateIdx, li, row, from, calls,
                    run, first >>

\* Lines 120-123: the row is complete.
EndRow ==
    /\ pc = "letters"
    /\ li > Len(letters)
    /\ transitions' = Append(transitions, row)
    /\ stateIndices' = Append(stateIndices, stateIdx)
    /\ stateIdx' = stateIdx + 1
    /\ pc' = "loop"
    /\ UNCHANGED minVars
    /\ UNCHANGED << taskVars, nextMemo, reqMemo, maxSize0, maxSize, states,
                    invstates, li, row, newState, from, calls, result, run,
                    first >>

\* Lines 106, 125-130: the traversal is over; the states go to the task.
AcceptStates ==
    /\ pc = "loop"
    /\ stateIdx >= Len(states)
    /\ calls' = Append(calls, AcceptCall(states))
    /\ from' = 0
    /\ pc' = "connect"
    /\ UNCHANGED minVars
    /\ UNCHANGED << taskVars, nextMemo, reqMemo, maxSize0, maxSize, states,
                    invstates, transitions, stateIndices, stateIdx, li, row,
                    newState, result, run, first >>

\* Lines 131-135: one row of the table goes to the task, slot by slot.
ConnectRow ==
    /\ pc = "connect"
    /\ from < Len(transitions)
    /\ calls' = calls \o RowCalls(ConnectFrom(stateIndices, from),
                                  At(transitions, from), InvLetters(letters))
    /\ from' = from + 1
    /\ UNCHANGED minVars
    /\ UNCHANGED << taskVars, nextMemo, reqMemo, maxSize0, maxSize, states,
                    invstates, transitions, stateIndices, stateIdx, li, row,
                    newState, result, pc, run, first >>

\* Line 136.
ReturnSuccess ==
    /\ pc = "connect"
    /\ from >= Len(transitions)
    /\ result' = "Success"
    /\ pc' = "done"
    /\ UNCHANGED minVars
    /\ UNCHANGED << taskVars, nextMemo, reqMemo, maxSize0, maxSize, states,
                    invstates, transitions, stateIndices, stateIdx, li, row,
                    newState, from, calls, run, first >>

Next ==
    \/ SkipState
    \/ BeginRow
    \/ NextKnown
    \/ NextNew
    \/ NextFail
    \/ EndRow
    \/ AcceptStates
    \/ ConnectRow
    \/ ReturnSuccess

Spec == Init /\ [][Next]_vars

\* Determine is a straight-line sequential function: a call that has a step
\* to take takes it.
SpecLive == Spec /\ WF_vars(Next)

\* The caller calls Determine a second time on the same task, with any budget.
\* The task answers as it did in the first call.
Rerun ==
    /\ pc = "done"
    /\ run = 1
    /\ run' = 2
    /\ first' = [result |-> result, calls |-> calls, maxSize |-> maxSize0]
    /\ \E m \in 0..MaxBudget :
        /\ maxSize0' = m
        /\ maxSize' = m
    /\ states' = PushState(<<>>, initial)
    /\ invstates' = InsertInv(EmptyMap, initial, 0)
    /\ transitions' = <<>>
    /\ stateIndices' = <<>>
    /\ stateIdx' = 0
    /\ li' = 0
    /\ row' = <<>>
    /\ newState' = initial
    /\ from' = 0
    /\ calls' = <<>>
    /\ result' = "none"
    /\ pc' = "loop"
    /\ UNCHANGED minVars
    /\ UNCHANGED << taskVars, nextMemo, reqMemo >>

NextTwo ==
    \/ Next
    \/ Rerun

SpecTwo == Init /\ [][NextTwo]_vars

\* ------------------------------------------------------------ observations
Range(v) == {v[k] : k \in 1..Len(v)}

Distinct(v) == \A j, k \in 1..Len(v) : j # k => v[j] # v[k]

\* The vector handed to AcceptStates (the first sink call of a successful run).
Accepted == IF calls # <<>> THEN calls[1].states ELSE <<>>

\* The Connect calls made so far, in order.
ConnectCalls == SelectSeq(calls, LAMBDA c : c.op = "Connect")

\* The answers of the task known so far, as a graph: the states the traversal
\* has to discover are those reached from Initial() by Next over the class
\* representatives, expanding required states only.
Required(s) == s \in DOMAIN reqMemo /\ reqMemo[s]

Successors(S) ==
    {nextMemo[q] : q \in {q \in DOMAIN nextMemo :
                            q[1] \in S /\ Required(q[1]) /\ q[2] \in Reps(letters)}}

RECURSIVE Closure(_)
Closure(S) == IF Successors(S) \subseteq S THEN S ELSE Closure(S \cup Successors(S))

Discoverable == Closure({initial})

\* C1: a run that returns Success has called AcceptStates exactly once, as its
\* first sink call, and every Connect after it; a run that returns Failure has
\* called no sink; no sink is called while the traversal is still going on.
C1_SinkProtocol ==
    /\ result = "Success" =>
          /\ Len(calls) >= 1
          /\ calls[1].op = "AcceptStates"
          /\ \A k \in 2..Len(calls) : calls[k].op = "Connect"
    /\ result = "Failure" => calls = <<>>
    /\ pc \in {"loop", "letters"} => calls = <<>>
    /\ pc = "connect" =>
          /\ Len(calls) >= 1
          /\ calls[1].op = "AcceptStates"
          /\ \A k \in 2..Len(calls) : calls[k].op = "Connect"

\* A successful run that made Connect calls after its AcceptStates call.
C1_Witness == result = "Success" /\ Len(calls) >= 3

\* C2: Determine returns Success iff the traversal discovers at most maxSize
\* states besides the initial one; it returns Failure at the moment the state
\* to insert would be the (maxSize+1)-th new one; with maxSize = 0 it succeeds
\* when every transition of every required state leads to the initial state.
C2_BudgetExact ==
    pc = "done" =>
        /\ result = "Success" <=> Cardinality(Discoverable \ {initial}) <= maxSize0
        /\ result = "Failure" =>
              /\ Len(states) = maxSize0 + 1
              /\ Distinct(states)
              /\ newState \notin Range(states)
        /\ (maxSize0 = 0 /\ \A q \in DOMAIN nextMemo :
                                Required(q[1]) => nextMemo[q] = initial)
              => result = "Success"

\* A run with a budget of 1 fails at its second new state.
C2_Witness ==
    /\ result = "Failure"
    /\ maxSize0 = 1
    /\ Len(states) = 2
    /\ newState \notin Range(states)

\* C3 as stated: a successful run hands AcceptStates at most maxSize states.
C3_AtMostMaxSize == result = "Success" => Len(Accepted) <= maxSize0

\* C3 amended: the initial state is not counted against the budget: a
\* successful run hands AcceptStates at most maxSize + 1 states, and a run
\* fails only with maxSize + 1 states in the vector and one more to insert.
C3_AtMostMaxSizePlusOne ==
    /\ result = "Success" => Len(Accepted) <= maxSize0 + 1
    /\ result = "Failure" => Cardinality(Range(states) \cup {newState}) = maxSize0 + 2

\* A successful run that used its whole budget: maxSize + 1 states accepted.
C3_Witness ==
    /\ result = "Success"
    /\ maxSize0 >= 1
    /\ Len(Accepted) = maxSize0 + 1

\* The index (0-based) of the accepted states that are required, ascending.
RequiredIndices ==
    SelectSeq([k \in 1..Len(Accepted) |-> k - 1],
              LAMBDA i : Required(Accepted[i + 1]))

\* The representative of the class with index c in the task's table.
ClassRep(c) ==
    LET k == CHOOSE k \in 1..Len(letters) : letters[k].idx = c IN letters[k].rep

\* The pairs <<from, to>> of the Connect calls.
Edges == {<<calls[k].from, calls[k].to>> :
            k \in {k \in 1..Len(calls) : calls[k].op = "Connect"}}

RECURSIVE ReachableFrom(_)
ReachableFrom(I) ==
    LET more == {e[2] : e \in {e \in Edges : e[1] \in I}}
    IN  IF more \subseteq I THEN I ELSE ReachableFrom(I \cup more)

\* C4: every Connect(from, to, letter) call carries the representative of a
\* class, and states[to] = task.Next(states[from], letter) for the accepted
\* vector; after Success the calls are exactly Next on the required states
\* and the representatives.
C4_ConnectIsNext ==
    /\ \A k \in 1..Len(calls) :
          calls[k].op = "Connect" =>
            /\ calls[k].letter \in Reps(letters)
            /\ calls[k].from < Len(Accepted)
            /\ calls[k].to < Len(Accepted)
            /\ Required(Accepted[calls[k].from + 1])
            /\ <<Accepted[calls[k].from + 1], calls[k].letter>> \in DOMAIN nextMemo
            /\ Accepted[calls[k].to + 1] =
                  nextMemo[<<Accepted[calls[k].from + 1], calls[k].letter>>]
    /\ result = "Success" =>
          \A i \in 1..Len(Accepted) : \A l \in Reps(letters) :
              Required(Accepted[i]) =>
                \E k \in 1..Len(calls) :
                    /\ calls[k].op = "Connect"
                    /\ calls[k].from = i - 1
                    /\ calls[k].letter = l

\* A successful run over two classes whose indices are not in iteration
\* order, with a transition to another state.
C4_Witness ==
    /\ result = "Success"
    /\ Len(letters) = 2
    /\ letters[1].idx = 1
    /\ \E k \in 1..Len(calls) :
          /\ calls[k].op = "Connect"
          /\ calls[k].from # calls[k].to
          /\ calls[k].letter = Letter(2)
    /\ \E i \in 1..Len(Accepted) :
          /\ <<Accepted[i], Letter(1)>> \in DOMAIN nextMemo
          /\ <<Accepted[i], Letter(2)>> \in DOMAIN nextMemo
          /\ nextMemo[<<Accepted[i], Letter(1)>>] # nextMemo[<<Accepted[i], Letter(2)>>]

\* C5: the initial state is at index 0 of the vector, during the traversal
\* and in the vector AcceptStates gets, whether or not it is required.
C5_InitialFirst ==
    /\ Len(states) >= 1
    /\ states[1] = initial
    /\ result = "Success" => Len(Accepted) >= 1 /\ Accepted[1] = initial

\* A successful run on a task whose initial state is not required.
C5_Witness ==
    /\ result = "Success"
    /\ initial \in DOMAIN reqMemo
    /\ ~reqMemo[initial]
    /\ Accepted = <<initial>>

\* C6: after Success every index of the accepted vector is reachable from
\* index 0 along Connect edges, and every from and to of a Connect call is an
\* index of that vector.
C6_ReachabilityClosure ==
    result = "Success" =>
        /\ \A e \in Edges : e[1] < Len(Accepted) /\ e[2] < Len(Accepted)
        /\ ReachableFrom({0}) = 0..(Len(Accepted) - 1)

\* A successful run whose last state is reached only through another state.
C6_Witness ==
    /\ result = "Success"
    /\ Len(Accepted) = 3
    /\ <<0, 2>> \notin Edges
    /\ <<1, 2>> \in Edges

\* C7: after Success, for every required state of the accepted vector,
\* Connect was called with its index as from exactly K times, once with the
\* representative of each of the K classes.
C7_RowCompleteness ==
    result = "Success" =>
        \A i \in 1..Len(Accepted) :
            Required(Accepted[i]) =>
              /\ Cardinality({k \in 1..Len(calls) :
                      calls[k].op = "Connect" /\ calls[k].from = i - 1})
                    = Len(letters)
              /\ \A t \in 1..Len(letters) :
                    Cardinality({k \in 1..Len(calls) :
                        /\ calls[k].op = "Connect"
                        /\ calls[k].from = i - 1
                        /\ calls[k].letter = letters[t].rep}) = 1

\* A successful run over two classes in which a required state follows a
\* state that is not required.
C7_Witness ==
    /\ result = "Success"
    /\ Len(letters) = 2
    /\ Len(Accepted) = 3
    /\ ~Required(Accepted[2])
    /\ Required(Accepted[3])

\* C8: the Connect calls of a successful run come by from ascending over the
\* required states in discovery order and, within one from, by class index
\* ascending; from is the discovery index of the state.
C8_ConnectOrder ==
    result = "Success" =>
        LET cc == ConnectCalls
            K == Len(letters)
            R == RequiredIndices
        IN  /\ Len(cc) = K * Len(R)
            /\ \A k \in 1..Len(cc) :
                  /\ cc[k].from = R[((k - 1) \div K) + 1]
                  /\ cc[k].letter = ClassRep((k - 1) % K)

\* A successful run with a gap (a state without a row before a state with
\* one) over two classes whose indices are not in iteration order.
C8_Witness ==
    /\ result = "Success"
    /\ Len(letters) = 2
    /\ letters[1].idx = 1
    /\ RequiredIndices = <<0, 2>>
    /\ Len(ConnectCalls) = 4

\* C9: if a call with budget m1 returned Success, a second call on the same
\* task with a budget m2 >= m1 returns Success and makes the same sink calls
\* in the same order.
C9_BudgetMonotone ==
    (/\ run = 2
     /\ pc = "done"
     /\ first.result = "Success"
     /\ first.maxSize <= maxSize0)
    => (result = "Success" /\ calls = first.calls)

\* A second successful call with a larger budget on a task with more than
\* one state.
C9_Witness ==
    /\ run = 2
    /\ pc = "done"
    /\ first.result = "Success"
    /\ first.maxSize < maxSize0
    /\ result = "Success"
    /\ Len(Accepted) >= 2

\* C10: every call returns; the loop index never passes maxSize + 1, the
\* vector never holds more than maxSize + 1 states, and no state is in it
\* twice.
C10_Termination ==
    /\ <>(pc = "done")
    /\ [](/\ stateIdx <= Len(states)
          /\ Len(states) <= maxSize0 + 1
          /\ Distinct(states))

\* A call that returned on a task whose Next graph has a cycle through the
\* initial state and more states than the budget allows.
C10_Witness ==
    /\ pc = "done"
    /\ result = "Failure"
    /\ maxSize0 >= 1
    /\ \E q \in DOMAIN nextMemo : q[1] # initial /\ nextMemo[q] = initial

\* The place of the first discovery of state s: the least <<index, letter
\* position>> of a required accepted state and a letter, in the order the
\* loops visit them, whose Next is s (0 when there is none).
DiscoveryKey(s) ==
    LET K == Len(letters)
        keys == {i * (K + 1) + p : i \in 1..Len(Accepted), p \in 1..K}
        hits == {k \in keys :
                    LET i == k \div (K + 1)
                        p == k % (K + 1)
                    IN  /\ p >= 1
                        /\ i >= 1
                        /\ Required(Accepted[i])
                        /\ <<Accepted[i], letters[p].rep>> \in DOMAIN nextMemo
                        /\ nextMemo[<<Accepted[i], letters[p].rep>>] = s}
    IN  IF hits = {} THEN 0 ELSE CHOOSE k \in hits : \A h \in hits : k <= h

\* C18: a state that is not required keeps its index and is in the accepted
\* vector, Next is never asked with it as source and no Connect call has its
\* index as from; so only states reached through required states are
\* discovered, and the indices follow the order of first discovery.
C18_RequiredPruning ==
    /\ \A q \in DOMAIN nextMemo : Required(q[1])
    /\ result = "Success" =>
          /\ Range(Accepted) = Discoverable
          /\ Accepted = states
          /\ \A i \in 1..Len(Accepted) :
                ~Required(Accepted[i]) =>
                  /\ Accepted[i] \in DOMAIN reqMemo
                  /\ \A q \in DOMAIN nextMemo : q[1] # Accepted[i]
                  /\ \A k \in 1..Len(calls) :
                        calls[k].op = "Connect" => calls[k].from # i - 1
          /\ \A j \in 2..Len(Accepted) : DiscoveryKey(Accepted[j]) > 0
          /\ \A j, k \in 2..Len(Accepted) :
                j < k => DiscoveryKey(Accepted[j]) < DiscoveryKey(Accepted[k])

\* A successful run with a state that is not required between two required
\* ones, all three found from the initial state or its successor.
C18_Witness ==
    /\ result = "Success"
    /\ Len(Accepted) = 3
    /\ Required(Accepted[1])
    /\ Accepted[2] \in DOMAIN reqMemo
    /\ ~reqMemo[Accepted[2]]
    /\ Required(Accepted[3])
    /\ Len(ConnectCalls) = 2 * Len(letters)
    /\ Len(letters) >= 1

\* C20: states and invstates are inverses of each other all along: the
\* entries of states are pairwise distinct, invstates holds exactly them with
\* their indices, every index stored in a row is an index of states; so no
\* state has two indices in the accepted vector.
C20_InverseMaps ==
    /\ Distinct(states)
    /\ DOMAIN invstates = Range(states)
    /\ \A i \in 1..Len(states) : invstates[states[i]] = i - 1
    /\ \A r \in Range(transitions) \cup {row} :
          \A j \in 1..Len(r) : r[j] < Len(states)
    /\ result = "Success" => Distinct(Accepted)

\* The traversal is in the middle of the second row with three states found.
C20_Witness ==
    /\ pc = "letters"
    /\ Len(states) = 3
    /\ Len(transitions) = 1
    /\ li = 2
    /\ row[RowSlot(letters[1]) + 1] = 2

\* ===================================================================
\* Pire::Impl::Minimize (src/pire/determine.h, lines 139-237).
\*
\* The task answers IsDetermined, Size, Letters and Next when the table is
\* built and SameClasses when the initial partition is made.  SameClasses is
\* an equivalence relation: it compares a label of the states.
\* ===================================================================

\* The largest task.Size() of a task with any of the letter tables.
MaxFsmSize == 2

\* The largest task.Size() of a task whose letters are all in one class.
MaxOneClassSize == 4

\* The alphabet, and the stride of the flat transition table (the library's
\* MaxChar, here the size of the alphabet).
Symbols == {0, 1}

MaxChar == Cardinality(Symbols)

\* task.Letters() for Minimize: one class of both symbols, or a class each.
MinLetterTables ==
    { << [rep |-> 0, members |-> {0, 1}] >>,
      << [rep |-> 0, members |-> {0}], [rep |-> 1, members |-> {1}] >> }

FsmStates(n) == 0..(n - 1)

\* The labellings of n states, one per partition of the states (a state has
\* the label of an earlier state or the next unused label).
Labelings(n) ==
    {f \in [1..n -> 0..(n - 1)] :
        \A i \in 1..n :
            \/ f[i] = 0
            \/ \E j \in 1..(i - 1) : f[j] = f[i] \/ f[j] = f[i] - 1}

\* A pointer that is null, and a pointer to v.
NullPtr == [null |-> TRUE]

Ptr(v) == [null |-> FALSE, val |-> v]

\* task.SameClasses(a, b), for the task whose labels are lab.
SameClasses(lab, a, b) == lab[a + 1] = lab[b + 1]

\* Lines 206-217: detTran, value-initialised, then filled class by class with
\* Next(from, representative) for every member letter of the class.
BuildDetTran(n, tbl, nx) ==
    [c \in 1..(n * MaxChar) |->
        LET fromState == (c - 1) \div MaxChar
            letter == (c - 1) % MaxChar
            ks == {k \in 1..Len(tbl) : letter \in tbl[k].members}
        IN  IF ks = {} THEN 0
            ELSE nx[<<fromState,
                      tbl[CHOOSE k \in ks : \A k2 \in ks : k2 <= k].rep>>]]

\* Line 210: the representatives, in iteration order.
DistinctLetters(tbl) == [k \in 1..Len(tbl) |-> tbl[k].rep]

\* Faulty variant: the stride is left out of the index.
TranNextNoStride(tbl, state, letter) == tbl[((state + letter) % Len(tbl)) + 1]

\* MinimizeEquality::Next, lines 175-177.
TranNext(tbl, state, letter) == tbl[state * MaxChar + letter + 1]

\* Faulty variant: the task's SameClasses is not asked.
MinimizeEqualityIgnoringTask(eq, a, b) ==
    eq.prev.null \/
        /\ eq.prev.val[a + 1] = eq.prev.val[b + 1]
        /\ \A k \in 1..Len(eq.letters) :
              eq.prev.val[TranNext(eq.tbl, a, eq.letters[k]) + 1]
                = eq.prev.val[TranNext(eq.tbl, b, eq.letters[k]) + 1]

\* Faulty variant: the loop over the letters is left out.
MinimizeEqualityIgnoringLetters(eq, a, b) ==
    /\ eq.task.null \/ SameClasses(eq.task.val, a, b)
    /\ eq.prev.null \/ eq.prev.val[a + 1] = eq.prev.val[b + 1]

\* Faulty variant: the next states are compared, not their classes.
MinimizeEqualityRawNext(eq, a, b) ==
    /\ eq.task.null \/ SameClasses(eq.task.val, a, b)
    /\ eq.prev.null \/
        /\ eq.prev.val[a + 1] = eq.prev.val[b + 1]
        /\ \A k \in 1..Len(eq.letters) :
              TranNext(eq.tbl, a, eq.letters[k]) = TranNext(eq.tbl, b, eq.letters[k])

\* MinimizeEquality::operator(), lines 152-167; eq holds m_tbl, m_letters,
\* m_prev and m_task.
MinimizeEquality(eq, a, b) ==
    /\ eq.task.null \/ SameClasses(eq.task.val, a, b)
    /\ eq.prev.null \/
        /\ eq.prev.val[a + 1] = eq.prev.val[b + 1]
        /\ \A k \in 1..Len(eq.letters) :
              eq.prev.val[TranNext(eq.tbl, a, eq.letters[k]) + 1]
                = eq.prev.val[TranNext(eq.tbl, b, eq.letters[k]) + 1]

\* Partition<size_t, MinimizeEquality>: its relation and, for every state
\* appended (the states 0, 1, ... in this order), the representative of its
\* class, the least member.
EmptyPartition(eq) == [eq |-> eq, inv |-> <<>>]

\* Partition::Append(x) for the next state x: x joins the class of the first
\* state its relation holds with, or starts a class.
PartitionAppend(part, x) ==
    LET ys == {y \in 0..(x - 1) : MinimizeEquality(part.eq, x, y)}
    IN  [part EXCEPT !.inv =
            Append(@, IF ys = {} THEN x
                      ELSE part.inv[(CHOOSE y \in ys : \A z \in ys : y <= z) + 1])]

\* Lines 224-225: the states 0 .. n-1 are appended (the partition of the
\* first n-1 states is computed once and named p).
RECURSIVE AppendStates(_, _)
AppendStates(part, n) ==
    IF n = 0 THEN part
    ELSE CHOOSE r \in {PartitionAppend(p, n - 1) :
                          p \in {AppendStates(part, n - 1)}} : TRUE

\* Partition::Split, one member: state x = Len(done) joins the class of the
\* first earlier state of its old class that eq relates it to, or starts a
\* class; done holds the new representatives of the states before x.
SplitAppend(old, eq, done) ==
    LET x == Len(done)
        ys == {y \in 0..(x - 1) :
                 old[y + 1] = old[x + 1] /\ MinimizeEquality(eq, x, y)}
    IN  Append(done, IF ys = {} THEN x
                     ELSE done[(CHOOSE y \in ys : \A z \in ys : y <= z) + 1])

\* The classes of a Split: every class is divided again under eq, its members
\* taken in order (the classes of the first k-1 states are computed once and
\* named done).
RECURSIVE SplitInv(_, _, _)
SplitInv(old, eq, k) ==
    IF k = 0 THEN <<>>
    ELSE CHOOSE r \in {SplitAppend(old, eq, done) :
                          done \in {SplitInv(old, eq, k - 1)}} : TRUE

\* Partition::Split(eq): eq replaces the relation.
PartitionSplit(part, eq) ==
    [eq |-> eq, inv |-> SplitInv(part.inv, eq, Len(part.inv))]

\* Partition::Representative(x)
Representative(part, x) == part.inv[x + 1]

\* Lines 188-194: the map after the loop.
NewClassMap(clMap, part) == [st \in 1..Len(clMap) |-> Representative(part, st - 1)]

\* Faulty variant: `changed` is assigned in every iteration, so that only the
\* last state counts.
MapChangedLastOnly(old, new) == Len(old) >= 1 /\ old[Len(old)] # new[Len(old)]

\* Faulty variant: `changed` is set whether or not the entry differs.
MapChangedAlways(old, new) == Len(old) >= 1

\* Lines 187-195: whether an entry of the map was changed.
MapChanged(old, new) == \E st \in 1..Len(old) : old[st] # new[st]

\* What the task may answer, drawn in pass 1 and given in pass 2.
TaskSizes == IF pass = 2 THEN {mSize} ELSE 0..MaxOneClassSize

TaskLetterTables(n) ==
    IF pass = 2 THEN {mLetters}
    ELSE {tbl \in MinLetterTables : n <= MaxFsmSize \/ Len(tbl) = 1}

TaskNextTables(n, tbl) ==
    IF pass = 2 THEN {mNext} ELSE [FsmStates(n) \X Reps(tbl) -> FsmStates(n)]

TaskLabelings == IF pass = 2 THEN {mLabel} ELSE Labelings(mSize)

\* Determine is not running.
DetIdle ==
    /\ initial = 0
    /\ letters = <<>>
    /\ nextMemo = EmptyMap
    /\ reqMemo = EmptyMap
    /\ maxSize0 = 0
    /\ maxSize = 0
    /\ states = <<>>
    /\ invstates = EmptyMap
    /\ transitions = <<>>
    /\ stateIndices = <<>>
    /\ stateIdx = 0
    /\ li = 0
    /\ row = <<>>
    /\ newState = 0
    /\ from = 0
    /\ calls = <<>>
    /\ result = "none"
    /\ pc = "idle"
    /\ run = 1
    /\ first = [result |-> "none", calls |-> <<>>, maxSize |-> 0]

InitMin == DetIdle /\ MinLocals("start")

\* Lines 202-204: the task is not determined.
NotDetermined ==
    /\ mpc = "start"
    /\ pass = 1
    /\ mCalls' = mCalls \o <<"IsDetermined:false">>
    /\ mResult' = "Failure"
    /\ mpc' = "done"
    /\ UNCHANGED detVars
    /\ UNCHANGED << mSize, mLetters, mNext, mLabel, detTran, distinctLetters,
                    last, stateClassMap, splits, assertOk, mAccepted, pass,
                    firstTask >>

\* Lines 202-217: the task is determined; the flat table and the list of the
\* representatives are built.
BuildTable ==
    /\ mpc = "start"
    /\ \E n \in TaskSizes :
        \E tbl \in TaskLetterTables(n) :
          \E nx \in TaskNextTables(n, tbl) :
            /\ mSize' = n
            /\ mLetters' = tbl
            /\ mNext' = nx
            /\ detTran' = BuildDetTran(n, tbl, nx)
            /\ distinctLetters' = DistinctLetters(tbl)
            /\ mCalls' = mCalls \o <<"IsDetermined:true", "Size", "Letters">>
                           \o (IF n > 0 THEN <<"Next">> ELSE <<>>)
    /\ mpc' = "seed"
    /\ UNCHANGED detVars
    /\ UNCHANGED << mLabel, last, stateClassMap, splits, assertOk, mAccepted,
                    mResult, pass, firstTask >>

\* Lines 219-227: the initial partition under SameClasses alone, and the
\* class map, value-initialised.
SeedPartition ==
    /\ mpc = "seed"
    /\ \E lab \in TaskLabelings :
        /\ mLabel' = lab
        /\ last' = AppendStates(
                      EmptyPartition([tbl |-> detTran, letters |-> distinctLetters,
                                      prev |-> NullPtr, task |-> Ptr(lab)]),
                      mSize)
    /\ stateClassMap' = Zeros(mSize)
    /\ mCalls' = mCalls \o <<"Size">>
                   \o (IF mSize >= 2 THEN <<"SameClasses">> ELSE <<>>)
    /\ mpc' = "update"
    /\ UNCHANGED detVars
    /\ UNCHANGED << mSize, mLetters, mNext, detTran, distinctLetters, splits,
                    assertOk, mAccepted, mResult, pass, firstTask >>

\* Line 186 in a build with assertions: Y_ASSERT(!clMap.empty()) fails.
AssertionAbort ==
    /\ mpc = "update"
    /\ stateClassMap = <<>>
    /\ assertOk' = FALSE
    /\ mpc' = "aborted"
    /\ UNCHANGED detVars
    /\ UNCHANGED << mSize, mLetters, mNext, mLabel, detTran, distinctLetters,
                    last, stateClassMap, splits, mCalls, mAccepted, mResult,
                    pass, firstTask >>

\* Lines 184-196 and 230: the map is updated (with the assertion compiled
\* out when the map is empty); the loop goes on if an entry changed.
UpdateStateClassMap ==
    /\ mpc = "update"
    /\ assertOk' = (assertOk /\ stateClassMap # <<>>)
    /\ stateClassMap' = NewClassMap(stateClassMap, last)
    /\ mpc' = IF MapChanged(stateClassMap, NewClassMap(stateClassMap, last))
                THEN "split" ELSE "accept"
    /\ UNCHANGED detVars
    /\ UNCHANGED << mSize, mLetters, mNext, mLabel, detTran, distinctLetters,
                    last, splits, mCalls, mAccepted, mResult, pass, firstTask >>

\* Line 231: the classes are split by the classes of the successors (the
\* count of the calls is kept within MaxOneClassSize + 1).
Split ==
    /\ mpc = "split"
    /\ splits <= MaxOneClassSize
    /\ last' = PartitionSplit(last, [tbl |-> detTran, letters |-> distinctLetters,
                                     prev |-> Ptr(stateClassMap), task |-> NullPtr])
    /\ splits' = splits + 1
    /\ mpc' = "update"
    /\ UNCHANGED detVars
    /\ UNCHANGED << mSize, mLetters, mNext, mLabel, detTran, distinctLetters,
                    stateClassMap, assertOk, mCalls, mAccepted, mResult, pass,
                    firstTask >>

\* Lines 234-236.
AcceptPartition ==
    /\ mpc = "accept"
    /\ mAccepted' = last.inv
    /\ mCalls' = mCalls \o <<"AcceptPartition">>
    /\ mResult' = "Success"
    /\ mpc' = "done"
    /\ UNCHANGED detVars
    /\ UNCHANGED << mSize, mLetters, mNext, mLabel, detTran, distinctLetters,
                    last, stateClassMap, splits, assertOk, pass, firstTask >>

NextMin ==
    \/ NotDetermined
    \/ BuildTable
    \/ SeedPartition
    \/ AssertionAbort
    \/ UpdateStateClassMap
    \/ Split
    \/ AcceptPartition

SpecMin == InitMin /\ [][NextMin]_vars

\* Minimize is sequential: a call that has a step to take takes it.
SpecMinLive == SpecMin /\ WF_vars(NextMin)

\* ===================================================================
\* Observations of a call of Minimize.
\* ===================================================================

\* Minimize has returned, or a failed assertion has ended it.
MinEnded == mpc \in {"done", "aborted"}

\* What the task answered to IsDetermined.
AnsweredDetermined == mCalls # <<>> /\ mCalls[1] = "IsDetermined:true"

AnsweredNotDetermined == mCalls # <<>> /\ mCalls[1] = "IsDetermined:false"

\* The positions of the trace at which op was called.
CallsOf(op) == {i \in 1..Len(mCalls) : mCalls[i] = op}

\* C19: for every determined task, whatever its Size(), the class map is not
\* empty when UpdateStateClassMap is called, and the assertion on it holds.
C19_ClassMapNonEmpty ==
    /\ assertOk
    /\ mpc = "update" => stateClassMap # <<>>

\* The failing call: a determined task of no states reaches UpdateStateClassMap.
C19_Witness ==
    /\ AnsweredDetermined
    /\ mSize = 0
    /\ mpc = "update"
    /\ stateClassMap = <<>>

\* C14: a task that is not determined gets Failure and no call but
\* IsDetermined; for a determined task Minimize calls AcceptPartition exactly
\* once, as its last call of the task, and returns Success.
C14_SinkProtocol ==
    /\ AnsweredNotDetermined =>
          /\ mpc = "done"
          /\ mResult = "Failure"
          /\ Len(mCalls) = 1
    /\ AnsweredDetermined /\ ~MinEnded => CallsOf("AcceptPartition") = {}
    /\ AnsweredDetermined /\ MinEnded =>
          /\ mResult = "Success"
          /\ CallsOf("AcceptPartition") = {Len(mCalls)}

\* The call of a determined task that ends with no AcceptPartition.
C14_Witness ==
    /\ AnsweredDetermined
    /\ mpc = "aborted"
    /\ CallsOf("AcceptPartition") = {}
    /\ mResult = "none"

\* The representative of the class of task.Letters() that holds symbol s.
RepOf(s) ==
    mLetters[CHOOSE k \in 1..Len(mLetters) : s \in mLetters[k].members].rep

\* task.Next(a, s) for any symbol s: the letters of a class act alike, so it
\* is the answer for the representative of the class of s.
SymbolNext(a, s) == mNext[<<a, RepOf(s)>>]

\* Minimize returned Success and the task has its partition.
MinSucceeded == mpc = "done" /\ mResult = "Success"

\* The class (its representative) of state a in the accepted partition.
FinalClass(a) == mAccepted[a + 1]

\* No word of at most k symbols leads a and b to states that SameClasses
\* distinguishes.
RECURSIVE Indistinguishable(_, _, _)
Indistinguishable(k, a, b) ==
    /\ SameClasses(mLabel, a, b)
    /\ k > 0 =>
          \A s \in Symbols :
              Indistinguishable(k - 1, SymbolNext(a, s), SymbolNext(b, s))

\* The reference relation: words longer than the number of states
\* distinguish no further pair.
Nerode(a, b) == Indistinguishable(mSize, a, b)

\* The partition with labels lab refines SameClasses and is stable under Next.
StableRefinement(lab) ==
    \A a, b \in FsmStates(mSize) :
        lab[a + 1] = lab[b + 1] =>
            /\ SameClasses(mLabel, a, b)
            /\ \A s \in Symbols :
                  lab[SymbolNext(a, s) + 1] = lab[SymbolNext(b, s) + 1]

\* C11: the partition passed to AcceptPartition is the coarsest partition that
\* refines SameClasses and is stable under Next for every symbol: two states
\* share a final class exactly when no word leads them to states that
\* SameClasses distinguishes.
C11_CoarsestStable ==
    MinSucceeded =>
        /\ StableRefinement(mAccepted)
        /\ \A a, b \in FsmStates(mSize) :
              a < b => ((FinalClass(a) = FinalClass(b)) <=> Nerode(a, b))

\* A task of three states of which two are merged, although their successors
\* differ as states, after the refinement loop has run.
C11_Witness ==
    /\ MinSucceeded
    /\ mSize = 3
    /\ splits >= 1
    /\ \E a, b \in FsmStates(mSize) :
          /\ a # b
          /\ FinalClass(a) = FinalClass(b)
          /\ \E s \in Symbols : SymbolNext(a, s) # SymbolNext(b, s)

\* C12: soundness.  Two states of one final class are in one class of
\* SameClasses, and every symbol of the alphabet (not only the
\* representatives) leads them into one final class.
C12_Soundness ==
    MinSucceeded =>
        \A a, b \in FsmStates(mSize) :
            FinalClass(a) = FinalClass(b) =>
                /\ SameClasses(mLabel, a, b)
                /\ \A s \in Symbols :
                      FinalClass(SymbolNext(a, s)) = FinalClass(SymbolNext(b, s))

\* Two merged states whose successors under a symbol that is no
\* representative are different states of one class.
C12_Witness ==
    /\ MinSucceeded
    /\ \E a, b \in FsmStates(mSize), s \in Symbols :
          /\ a # b
          /\ FinalClass(a) = FinalClass(b)
          /\ s # RepOf(s)
          /\ SymbolNext(a, s) # SymbolNext(b, s)
          /\ FinalClass(SymbolNext(a, s)) = FinalClass(SymbolNext(b, s))

\* C13: completeness.  Two states of distinct final classes are distinguished
\* by SameClasses, or a symbol leads them into distinct final classes.
C13_Completeness ==
    MinSucceeded =>
        \A a, b \in FsmStates(mSize) :
            FinalClass(a) # FinalClass(b) =>
                \/ ~SameClasses(mLabel, a, b)
                \/ \E s \in Symbols :
                      FinalClass(SymbolNext(a, s)) # FinalClass(SymbolNext(b, s))

\* Two states that SameClasses does not distinguish, separated by a symbol.
C13_Witness ==
    /\ MinSucceeded
    /\ \E a, b \in FsmStates(mSize) :
          /\ SameClasses(mLabel, a, b)
          /\ FinalClass(a) # FinalClass(b)
          /\ \E s \in Symbols :
                FinalClass(SymbolNext(a, s)) # FinalClass(SymbolNext(b, s))

\* A call of UpdateStateClassMap returns.
UpdateReturns == mpc = "update" /\ mpc' \in {"split", "accept"}

\* C15: the refinement loop ends for every determined task, after at most
\* Size() calls of Split, and it ends in the first round in which no entry of
\* stateClassMap changed: a round that changed an entry is followed by a
\* Split, a round that changed none by AcceptPartition.
C15_LoopTerminates ==
    /\ <>MinEnded
    /\ [](AnsweredDetermined => splits <= mSize)
    /\ [][/\ UpdateReturns =>
                ((mpc' = "accept") <=> (stateClassMap' = stateClassMap))
          /\ mpc = "accept" => splits' = splits /\ mpc' = "done"]_vars

\* The loop has ended after two calls of Split for three states: the first
\* divided a class, the second changed nothing.
C15_Witness ==
    /\ mpc = "accept"
    /\ mSize = 3
    /\ splits = 2
    /\ Cardinality(Range(last.inv)) = 3

\* The partition has all the states.
Seeded == mpc \in {"update", "split", "accept"} \/ MinSucceeded

\* C17: the partition only gets finer.  Two states in different classes
\* before a Split are in different classes after it (hence after every later
\* one), the number of classes does not decrease, and every partition from
\* the initial one to the final one refines that of SameClasses.
C17_OnlyFiner ==
    /\ [](Seeded =>
            \A a, b \in FsmStates(mSize) :
                Representative(last, a) = Representative(last, b) =>
                    SameClasses(mLabel, a, b))
    /\ [](MinSucceeded => mAccepted = last.inv)
    /\ [][mpc = "split" =>
            /\ \A a, b \in FsmStates(mSize) :
                  Representative(last, a) # Representative(last, b) =>
                      Representative(last', a) # Representative(last', b)
            /\ Cardinality(Range(last'.inv)) >= Cardinality(Range(last.inv))]_vars

\* A second Split is about to run on a partition that the first has divided:
\* states that SameClasses keeps together are in different classes.
C17_Witness ==
    /\ mpc = "split"
    /\ splits = 1
    /\ \E a, b \in FsmStates(mSize) :
          /\ SameClasses(mLabel, a, b)
          /\ Representative(last, a) # Representative(last, b)

\* ===================================================================
\* Minimize on its own output: the automaton collapsed by the accepted
\* partition, one state per class, numbered in the order of the
\* representatives, with Next and SameClasses taken from the representatives.
\* ===================================================================

\* The representatives of the classes of the accepted partition.
ClassReps == Range(mAccepted)

\* The state of the collapsed automaton that stands for the class of r.
CollapsedIndex(r) == Cardinality({q \in ClassReps : q < r})

\* The representative of the class that state i of the collapsed automaton
\* stands for.
RepAt(i) == CHOOSE r \in ClassReps : CollapsedIndex(r) = i

CollapsedNext ==
    [p \in FsmStates(Cardinality(ClassReps)) \X Reps(mLetters) |->
        CollapsedIndex(FinalClass(mNext[<<RepAt(p[1]), p[2]>>]))]

CollapsedLabel ==
    [i \in 1..Cardinality(ClassReps) |-> mLabel[RepAt(i - 1) + 1]]

\* The surrounding library rebuilds the task from the collapsed states and
\* calls Minimize again.
Collapse ==
    /\ MinSucceeded
    /\ pass = 1
    /\ pass' = 2
    /\ firstTask' = [size |-> mSize, accepted |-> mAccepted]
    /\ mSize' = Cardinality(ClassReps)
    /\ mNext' = CollapsedNext
    /\ mLabel' = CollapsedLabel
    /\ detTran' = <<>>
    /\ distinctLetters' = <<>>
    /\ last' = [eq |-> [prev |-> FALSE, task |-> FALSE], inv |-> <<>>]
    /\ stateClassMap' = <<>>
    /\ splits' = 0
    /\ assertOk' = TRUE
    /\ mCalls' = <<>>
    /\ mAccepted' = <<>>
    /\ mResult' = "none"
    /\ mpc' = "start"
    /\ UNCHANGED detVars
    /\ UNCHANGED mLetters

NextMinTwo == NextMin \/ Collapse

SpecMinTwo == InitMin /\ [][NextMinTwo]_vars

\* C16: idempotence.  Minimize, run on the automaton collapsed by the
\* partition it produced, accepts a partition with one class per state.
C16_Idempotent ==
    pass = 2 /\ MinSucceeded =>
        /\ mSize = Cardinality(Range(firstTask.accepted))
        /\ mAccepted = [i \in 1..mSize |-> i - 1]

\* The second run has accepted its partition for an automaton that the first
\* run made smaller, and had classes to tell apart by their successors.
C16_Witness ==
    /\ pass = 2
    /\ MinSucceeded
    /\ firstTask.size = 3
    /\ mSize = 2
    /\ splits >= 1

====
